---- MODULE Spec2Model ----
(***************************************************************************)
(* Model of src/EDA_Streamlit_app.py: a Streamlit script that loads        *)
(* VNL2023.csv through st.cache_data, filters it by position and age, and  *)
(* renders six tabs.  One process serves a sequence of script runs; each   *)
(* run executes the script top to bottom in a fresh namespace and stops at *)
(* the first uncaught exception.                                           *)
(*                                                                         *)
(* A table is [cols, rows]: the header's columns and the data rows.  The   *)
(* cells are non-null and Age is an integer column, as in the data model.  *)
(* A frame derived from df (filtered_df, top_attack) is the sequence of    *)
(* the index labels of df it keeps, in order, as pandas keeps them.        *)
(***************************************************************************)
EXTENDS Integers, Sequences, FiniteSets, TLC

VARIABLES
    file,                  \* VNL2023.csv on disk
    cache,                 \* st.cache_data's entries for load_data: <<>> or <<table>>
    reads,                 \* executions of pd.read_csv in this process
    pc,                    \* position of the script
    exc,                   \* the exception that stopped the current run, or "none"
    df,
    selected_positions,
    age_range,
    filtered_df,
    selected_skills,
    top_n,
    top_attack,
    selected_corr_skills,
    min_players,
    country_stats,
    out                    \* what the run has rendered, per container

vars == <<file, cache, reads, pc, exc, df, selected_positions, age_range,
          filtered_df, selected_skills, top_n, top_attack,
          selected_corr_skills, min_players, country_stats, out>>

(*************************** bounds of the model ***************************)
MaxRows == 2            \* rows of the file, application runs
MaxReads == 2           \* read_csv executions followed in one process
MaxFilterRows == 3      \* rows of the file, filter runs
MaxTopRows == 6         \* rows of the file, Top Attackers runs
MaxCountryRows == 6     \* rows of the file, Country Performance runs

(**************************** program constants ****************************)
TopNMin == 5
TopNMax == 20
TopNDefault == 10
MinPlayersMin == 1
MinPlayersMax == 10
MinPlayersDefault == 3
CorrMinColumns == 2

Required ==
    {"Player", "Country", "Position", "Age", "Attack", "Block", "Serve",
     "Set", "Dig", "Receive"}

skills == {"Attack", "Block", "Serve", "Set", "Dig", "Receive"}
corr_skills == {"Attack", "Block", "Serve", "Set", "Dig", "Receive", "Age"}
corr_default == {"Attack", "Block", "Serve", "Dig"}

Tabs == {"tab1", "tab2", "tab3", "tab4", "tab5", "tab6"}
Containers == Tabs \cup {"page", "sidebar"}
Charts == {"chart", "boxplot", "scatter", "chart_players", "chart_attack"}
Tables == {"table"}

(******************************* helpers ***********************************)
Range(s) == {s[i] : i \in DOMAIN s}
SeqsUpTo(S, n) == UNION {[1..k -> S] : k \in 0..n}
Index(n) == [i \in 1..n |-> i]
Min(a, b) == IF a <= b THEN a ELSE b
RemoveAt(s, k) == SubSeq(s, 1, k - 1) \o SubSeq(s, k + 1, Len(s))

NoTable == [cols |-> {}, rows |-> <<>>]
NoOutput == [c \in Containers |-> {}]

(*************************** pandas operations *****************************)
\* df['Position'].unique()
Unique(d) == {d.rows[i].Position : i \in DOMAIN d.rows}

\* int(df['Age'].min()), int(df['Age'].max()); Age is int64, so int() keeps
\* the value
AgeMin(d) ==
    CHOOSE a \in {d.rows[i].Age : i \in DOMAIN d.rows} :
        \A i \in DOMAIN d.rows : a <= d.rows[i].Age
AgeMaxExclusive(d) ==
    (CHOOSE a \in {d.rows[i].Age : i \in DOMAIN d.rows} :
        \A i \in DOMAIN d.rows : d.rows[i].Age <= a) - 1
AgeMax(d) ==
    CHOOSE a \in {d.rows[i].Age : i \in DOMAIN d.rows} :
        \A i \in DOMAIN d.rows : d.rows[i].Age <= a

\* Series.isin(values)
IsIn(v, values) == v \in values

\* Series.between(left, right), inclusive="both"
BetweenExclusiveRight(v, left, right) == left <= v /\ v < right
Between(v, left, right) == left <= v /\ v <= right

\* df[(df['Position'].isin(...)) & (df['Age'].between(...))]
FilterRows(d, sel, rng) ==
    SelectSeq(Index(Len(d.rows)),
        LAMBDA i : IsIn(d.rows[i].Position, sel)
                   /\ Between(d.rows[i].Age, rng[1], rng[2]))

\* the statement filtered_df = df[...]: what df and filtered_df are after it
ApplyFiltersInPlace(d, sel, rng) ==
    LET kept == FilterRows(d, sel, rng)
    IN  [df |-> [cols |-> d.cols, rows |-> [k \in DOMAIN kept |-> d.rows[kept[k]]]],
         filtered_df |-> Index(Len(kept))]
ApplyFilters(d, sel, rng) ==
    [df |-> d, filtered_df |-> FilterRows(d, sel, rng)]

\* the multiselect's default and the slider's default value
DefaultPositions(d) == Unique(d)
DefaultAgeRange(d) == <<AgeMin(d), AgeMax(d)>>

\* DataFrame.nlargest(n, 'Attack'), keep='first': the n greatest in
\* descending order, equal values in order of appearance
RECURSIVE NLargestKeepLast(_, _, _)
NLargestKeepLast(d, view, n) ==
    IF n <= 0 \/ view = <<>> THEN <<>>
    ELSE LET k == CHOOSE k \in DOMAIN view :
                      /\ \A j \in DOMAIN view :
                             d.rows[view[j]].Attack <= d.rows[view[k]].Attack
                      /\ \A j \in (k + 1)..Len(view) :
                             d.rows[view[j]].Attack < d.rows[view[k]].Attack
         IN  <<view[k]>> \o NLargestKeepLast(d, RemoveAt(view, k), n - 1)
RECURSIVE NLargest(_, _, _)
NLargest(d, view, n) ==
    IF n <= 0 \/ view = <<>> THEN <<>>
    ELSE LET k == CHOOSE k \in DOMAIN view :
                      /\ \A j \in DOMAIN view :
                             d.rows[view[j]].Attack <= d.rows[view[k]].Attack
                      /\ \A j \in 1..(k - 1) :
                             d.rows[view[j]].Attack < d.rows[view[k]].Attack
         IN  <<view[k]>> \o NLargest(d, RemoveAt(view, k), n - 1)

\* groupby('Country').agg({'Player': 'count', 'Attack': 'mean', 'Age': 'mean'}):
\* one row per country of the view, keys in sorted order; a mean is kept as
\* <<sum, count>>.  Block's values are not modelled.
CountryKeys == <<"BRA", "ITA", "USA">>
RECURSIVE SumOver(_, _, _)
SumOver(d, rowsOf, col) ==
    IF rowsOf = <<>> THEN 0
    ELSE d.rows[Head(rowsOf)][col] + SumOver(d, Tail(rowsOf), col)
GroupRows(d, view, c) == SelectSeq(view, LAMBDA i : d.rows[i].Country = c)
GroupByCountry(d, view) ==
    LET keys == SelectSeq(CountryKeys, LAMBDA c : GroupRows(d, view, c) # <<>>)
    IN  [k \in DOMAIN keys |->
            LET g == GroupRows(d, view, keys[k])
            IN  [Country |-> keys[k],
                 Player |-> Len(g),
                 Attack |-> <<SumOver(d, g, "Attack"), Len(g)>>,
                 Age |-> <<SumOver(d, g, "Age"), Len(g)>>]]

\* sort_values('Player', ascending=False): the default sort is not stable,
\* so every descending arrangement is an outcome
SortValuesDescending(s) ==
    {t \in [DOMAIN s -> Range(s)] :
        /\ Range(t) = Range(s)
        /\ \A i \in 1..(Len(s) - 1) : t[i].Player >= t[i + 1].Player}

\* country_stats[country_stats['Player'] >= min_players]
MoreThanMinPlayers(s, m) == SelectSeq(s, LAMBDA r : r.Player > m)
AtLeastMinPlayers(s, m) == SelectSeq(s, LAMBDA r : r.Player >= m)

(************************ plotting library outcomes ************************)
\* sns.barplot, sns.boxplot, sns.scatterplot and the correlation heatmap
\* return their Axes whatever the frame holds: of an empty frame they draw
\* an empty chart (the seaborn release the script's barplot(legend=False)
\* needs).
\* sns.heatmap of the skills-by-position matrix: the matrix of an empty view
\* has no position column, so there is no minimum to scale the colours by
\* and the call raises ValueError.
MatrixHeatmap(empty) == IF empty THEN "raised" ELSE "drawn"

(****************************** input sets *********************************)
Table(cols, rows) == [cols |-> cols, rows |-> rows]
Csv(cols, rows) == [kind |-> "csv", cols |-> cols, rows |-> rows]
Missing == [kind |-> "missing", cols |-> {}, rows |-> <<>>]
Unparseable == [kind |-> "unparseable", cols |-> {}, rows |-> <<>>]

AppRows ==
    [Position : {"OH", "MB"}, Age : {20, 21}, Country : {"BRA"},
     Attack : {7}]
FilterRowsDomain ==
    [Position : {"OH", "MB", "S"}, Age : {20, 21, 22}, Country : {"BRA"},
     Attack : {7}]
TopRows ==
    [Position : {"OH"}, Age : {20}, Country : {"BRA"}, Attack : {7, 8, 9}]
CountryRows ==
    [Position : {"OH"}, Age : {20}, Country : {"BRA", "ITA", "USA"},
     Attack : {7}]

\* headers of the file: complete, or lacking one required column
ColumnSets == {Required} \cup {Required \ {c} : c \in Required}

\* values the view-local widgets are followed at
SkillChoices == {{}, {"Attack"}, skills}
CorrChoices == {{}, {"Attack"}, {"Attack", "Age"}, corr_default}
TopNChoices == {TopNMin, TopNDefault, TopNMax}
MinPlayersChoices == {MinPlayersMin, MinPlayersDefault, MinPlayersMax}

(************************** what a step renders ****************************)
Render(c, elems) == [out EXCEPT ![c] = @ \cup elems]
PageTitle == {"title", "description"}
SidebarWidgets == {"header", "multiselect", "slider"}
Tab1Drawn == {"header", "chart", "expander"}
Tab2Drawn == {"header", "multiselect", "chart"}
Tab3Drawn == {"header", "subheader_age", "boxplot", "subheader_attack", "scatter"}
Tab4Drawn == {"header", "slider", "table", "chart"}
Tab5Drawn == {"header", "multiselect", "chart", "expander"}

\* the end of a step: rendered elements, the exception raised if any, and
\* where the script goes on
Finish(c, elems, e, next) ==
    /\ out' = Render(c, elems)
    /\ exc' = e
    /\ pc' = IF e = "none" THEN next ELSE "halted"

(********************************* steps ***********************************)
\* a user interaction (or the first request): the script runs again, in a
\* fresh namespace, replacing what the previous run rendered
Rerun ==
    /\ pc \in {"start", "done", "halted"}
    /\ pc' = "load"
    /\ exc' = "none"
    /\ df' = NoTable
    /\ selected_positions' = {}
    /\ age_range' = <<0, 0>>
    /\ filtered_df' = <<>>
    /\ selected_skills' = {}
    /\ top_n' = 0
    /\ top_attack' = <<>>
    /\ selected_corr_skills' = {}
    /\ min_players' = 0
    /\ country_stats' = <<>>
    /\ out' = NoOutput
    /\ UNCHANGED <<file, cache, reads>>

\* st.cache_data: an entry stored by an earlier call is returned
CacheNeverHits(c) == FALSE
CacheHit(c) == c # <<>>

\* df = load_data()
LoadData ==
    /\ pc = "load"
    /\ IF CacheHit(cache)
       THEN /\ df' = cache[1]
            /\ pc' = "sidebar"
            /\ UNCHANGED <<cache, reads, exc>>
       ELSE /\ reads < MaxReads
            /\ reads' = reads + 1
            /\ IF file.kind = "csv"
               THEN /\ cache' = <<Table(file.cols, file.rows)>>
                    /\ df' = Table(file.cols, file.rows)
                    /\ pc' = "sidebar"
                    /\ exc' = "none"
               ELSE /\ exc' = IF file.kind = "missing"
                              THEN "FileNotFoundError" ELSE "ParserError"
                    /\ pc' = "halted"
                    /\ UNCHANGED <<cache, df>>
    /\ UNCHANGED <<file, selected_positions, age_range, filtered_df,
                   selected_skills, top_n, top_attack, selected_corr_skills,
                   min_players, country_stats, out>>

\* title, description and the sidebar's two filter widgets
Sidebar ==
    /\ pc = "sidebar"
    /\ IF "Position" \notin df.cols
       THEN /\ out' = [out EXCEPT !["page"] = @ \cup PageTitle,
                                  !["sidebar"] = @ \cup {"header"}]
            /\ exc' = "KeyError"
            /\ pc' = "halted"
            /\ UNCHANGED <<selected_positions, age_range>>
       ELSE \E sel \in SUBSET Unique(df) :
            /\ selected_positions' = sel
            /\ IF "Age" \notin df.cols \/ df.rows = <<>>
               THEN /\ out' = [out EXCEPT !["page"] = @ \cup PageTitle,
                                          !["sidebar"] = @ \cup {"header", "multiselect"}]
                    /\ exc' = IF "Age" \notin df.cols
                              THEN "KeyError" ELSE "ValueError"
                    /\ pc' = "halted"
                    /\ UNCHANGED age_range
               ELSE \E lo \in AgeMin(df)..AgeMax(df) :
                    \E hi \in lo..AgeMax(df) :
                        /\ age_range' = <<lo, hi>>
                        /\ out' = [out EXCEPT !["page"] = @ \cup PageTitle,
                                              !["sidebar"] = @ \cup SidebarWidgets]
                        /\ exc' = "none"
                        /\ pc' = "filter"
    /\ UNCHANGED <<file, cache, reads, df, filtered_df, selected_skills,
                   top_n, top_attack, selected_corr_skills, min_players,
                   country_stats>>

\* filtered_df = df[...] and the sidebar's count
Filter ==
    /\ pc = "filter"
    /\ LET r == ApplyFilters(df, selected_positions, age_range)
       IN  /\ df' = r.df
           /\ filtered_df' = r.filtered_df
    /\ Finish("sidebar", {"count"}, "none", "tab1")
    /\ UNCHANGED <<file, cache, reads, selected_positions, age_range,
                   selected_skills, top_n, top_attack, selected_corr_skills,
                   min_players, country_stats>>

\* Tab 1: Position Distribution
Tab1 ==
    /\ pc = "tab1"
    /\ Finish("tab1", Tab1Drawn, "none", "tab2")
    /\ UNCHANGED <<file, cache, reads, df, selected_positions, age_range,
                   filtered_df, selected_skills, top_n, top_attack,
                   selected_corr_skills, min_players, country_stats>>

\* Tab 2: Skills by Position
Tab2 ==
    /\ pc = "tab2"
    /\ \E sk \in SkillChoices :
          /\ selected_skills' = sk
          /\ IF sk # {}
             THEN IF ~(sk \subseteq df.cols)
                  THEN Finish("tab2", {"header", "multiselect"}, "KeyError", "tab3")
                  ELSE IF MatrixHeatmap(filtered_df = <<>>) = "drawn"
                       THEN Finish("tab2", Tab2Drawn, "none", "tab3")
                       ELSE Finish("tab2", {"header", "multiselect"},
                                   "ValueError", "tab3")
             ELSE Finish("tab2", {"header", "multiselect", "warning"}, "none", "tab3")
    /\ UNCHANGED <<file, cache, reads, df, selected_positions, age_range,
                   filtered_df, top_n, top_attack, selected_corr_skills,
                   min_players, country_stats>>

\* Tab 3: Age Analysis
Tab3 ==
    /\ pc = "tab3"
    /\ IF "Attack" \notin df.cols
       THEN Finish("tab3", Tab3Drawn \ {"scatter"}, "ValueError", "tab4")
       ELSE Finish("tab3", Tab3Drawn, "none", "tab4")
    /\ UNCHANGED <<file, cache, reads, df, selected_positions, age_range,
                   filtered_df, selected_skills, top_n, top_attack,
                   selected_corr_skills, min_players, country_stats>>

\* Tab 4: Top Attackers, the slider at one of `choices`
Tab4With(choices) ==
    /\ pc = "tab4"
    /\ \E n \in choices :
          /\ top_n' = n
          /\ IF ~({"Attack", "Player", "Country"} \subseteq df.cols)
             THEN /\ UNCHANGED top_attack
                  /\ Finish("tab4", {"header", "slider"}, "KeyError", "tab5")
             ELSE /\ top_attack' = NLargest(df, filtered_df, n)
                  /\ Finish("tab4", Tab4Drawn, "none", "tab5")
    /\ UNCHANGED <<file, cache, reads, df, selected_positions, age_range,
                   filtered_df, selected_skills, selected_corr_skills,
                   min_players, country_stats>>

\* Tab 5: Skill Correlations
Tab5 ==
    /\ pc = "tab5"
    /\ \E cs \in CorrChoices :
          /\ selected_corr_skills' = cs
          /\ IF Cardinality(cs) >= CorrMinColumns
             THEN IF ~(cs \subseteq df.cols)
                  THEN Finish("tab5", {"header", "multiselect"}, "KeyError", "tab6")
                  ELSE Finish("tab5", Tab5Drawn, "none", "tab6")
             ELSE Finish("tab5", {"header", "multiselect", "warning"}, "none", "tab6")
    /\ UNCHANGED <<file, cache, reads, df, selected_positions, age_range,
                   filtered_df, selected_skills, top_n, top_attack,
                   min_players, country_stats>>

\* Tab 6: Country Performance, the slider at one of `choices`
Tab6With(choices) ==
    /\ pc = "tab6"
    /\ \E m \in choices :
          /\ min_players' = m
          /\ IF ~({"Country", "Player", "Attack", "Block", "Age"} \subseteq df.cols)
             THEN /\ UNCHANGED country_stats
                  /\ Finish("tab6", {"header", "slider"}, "KeyError", "footer")
             ELSE \E sorted \in SortValuesDescending(GroupByCountry(df, filtered_df)) :
                     /\ country_stats' = AtLeastMinPlayers(sorted, m)
                     /\ IF country_stats' # <<>>
                        THEN Finish("tab6",
                                 {"header", "slider", "subheader_players",
                                  "chart_players", "subheader_attack",
                                  "chart_attack", "subheader_table", "table"},
                                 "none", "footer")
                        ELSE Finish("tab6", {"header", "slider", "warning"},
                                    "none", "footer")
    /\ UNCHANGED <<file, cache, reads, df, selected_positions, age_range,
                   filtered_df, selected_skills, top_n, top_attack,
                   selected_corr_skills>>

\* footer and plt.close('all')
Footer ==
    /\ pc = "footer"
    /\ Finish("page", {"footer"}, "none", "done")
    /\ UNCHANGED <<file, cache, reads, df, selected_positions, age_range,
                   filtered_df, selected_skills, top_n, top_attack,
                   selected_corr_skills, min_players, country_stats>>

Tab4 == Tab4With(TopNChoices)
Tab6 == Tab6With(MinPlayersChoices)

(***************************** the application *****************************)
AppFiles ==
    {Missing, Unparseable}
    \cup {Csv(c, r) : c \in ColumnSets, r \in SeqsUpTo(AppRows, MaxRows)}

Init ==
    /\ file \in AppFiles
    /\ cache = <<>>
    /\ reads = 0
    /\ pc = "start"
    /\ exc = "none"
    /\ df = NoTable
    /\ selected_positions = {}
    /\ age_range = <<0, 0>>
    /\ filtered_df = <<>>
    /\ selected_skills = {}
    /\ top_n = 0
    /\ top_attack = <<>>
    /\ selected_corr_skills = {}
    /\ min_players = 0
    /\ country_stats = <<>>
    /\ out = NoOutput

Next ==
    \/ Rerun
    \/ LoadData
    \/ Sidebar
    \/ Filter
    \/ Tab1
    \/ Tab2
    \/ Tab3
    \/ Tab4
    \/ Tab5
    \/ Tab6
    \/ Footer

Spec == Init /\ [][Next]_vars
(*********** the filter, the ranking and the country statistics ************)
(* The same steps, started where the script reaches them, over files with  *)
(* more rows and values than the application runs follow.                  *)
LoadedAt(rowDomain, maxRows, at) ==
    /\ file \in {Csv(Required, r) : r \in SeqsUpTo(rowDomain, maxRows) \ {<<>>}}
    /\ cache = <<Table(file.cols, file.rows)>>
    /\ reads = 1
    /\ pc = at
    /\ exc = "none"
    /\ df = Table(file.cols, file.rows)

InitFilter ==
    /\ LoadedAt(FilterRowsDomain, MaxFilterRows, "sidebar")
    /\ selected_positions = {}
    /\ age_range = <<0, 0>>
    /\ filtered_df = <<>>
    /\ selected_skills = {}
    /\ top_n = 0
    /\ top_attack = <<>>
    /\ selected_corr_skills = {}
    /\ min_players = 0
    /\ country_stats = <<>>
    /\ out = NoOutput

NextFilter ==
    \/ Sidebar
    \/ Filter

SpecFilter == InitFilter /\ [][NextFilter]_vars

\* the default filters and the default view parameters, everything drawn
OutBeforeTab4 ==
    [c \in Containers |->
        CASE c = "page" -> PageTitle
          [] c = "sidebar" -> SidebarWidgets \cup {"count"}
          [] c = "tab1" -> Tab1Drawn
          [] c = "tab2" -> Tab2Drawn
          [] c = "tab3" -> Tab3Drawn
          [] OTHER -> {}]

InitTopN ==
    /\ LoadedAt(TopRows, MaxTopRows, "tab4")
    /\ selected_positions = DefaultPositions(df)
    /\ age_range = DefaultAgeRange(df)
    /\ filtered_df = FilterRows(df, selected_positions, age_range)
    /\ selected_skills = skills
    /\ top_n = 0
    /\ top_attack = <<>>
    /\ selected_corr_skills = {}
    /\ min_players = 0
    /\ country_stats = <<>>
    /\ out = OutBeforeTab4

NextTopN == Tab4With(TopNMin..TopNMax)

SpecTopN == InitTopN /\ [][NextTopN]_vars

InitCountry ==
    /\ LoadedAt(CountryRows, MaxCountryRows, "tab6")
    /\ selected_positions = DefaultPositions(df)
    /\ age_range = DefaultAgeRange(df)
    /\ filtered_df = FilterRows(df, selected_positions, age_range)
    /\ selected_skills = skills
    /\ top_n = TopNDefault
    /\ top_attack = NLargest(df, filtered_df, top_n)
    /\ selected_corr_skills = corr_default
    /\ min_players = 0
    /\ country_stats = <<>>
    /\ out = [OutBeforeTab4 EXCEPT !["tab4"] = Tab4Drawn, !["tab5"] = Tab5Drawn]

NextCountry == Tab6With(MinPlayersMin..MinPlayersMax)

SpecCountry == InitCountry /\ [][NextCountry]_vars
(****************************** properties *********************************)
Loaded == Table(file.cols, file.rows)
RunEnded == pc \in {"done", "halted"}
FilterComputed == "count" \in out["sidebar"]
Entered(t) == "header" \in out[t]
RowsOfView == Range(filtered_df)
CountryCount(c) == Cardinality({i \in RowsOfView : df.rows[i].Country = c})
CountriesOfView == {df.rows[i].Country : i \in RowsOfView}

\* C1: once the filter has been computed, a row of the dataset is in the
\* filtered view iff its Position is selected and age_min <= Age <= age_max
\* (both inclusive); the view lists rows of the dataset, each at most once,
\* so it is never larger than the dataset.
C1_FilterPredicate ==
    FilterComputed =>
        /\ \A i \in DOMAIN df.rows :
              (i \in RowsOfView) <=>
                  /\ df.rows[i].Position \in selected_positions
                  /\ age_range[1] <= df.rows[i].Age
                  /\ df.rows[i].Age <= age_range[2]
        /\ RowsOfView \subseteq DOMAIN df.rows
        /\ Cardinality(RowsOfView) = Len(filtered_df)
        /\ Len(filtered_df) <= Len(df.rows)

\* a row kept at the upper bound, a row of a selected position dropped just
\* above it, and a row in the age range dropped for its position
C1_Witness ==
    /\ FilterComputed
    /\ \E i \in RowsOfView : df.rows[i].Age = age_range[2]
    /\ \E i \in DOMAIN df.rows \ RowsOfView :
          /\ df.rows[i].Position \in selected_positions
          /\ df.rows[i].Age = age_range[2] + 1
    /\ \E i \in DOMAIN df.rows \ RowsOfView :
          /\ df.rows[i].Position \notin selected_positions
          /\ age_range[1] <= df.rows[i].Age
          /\ df.rows[i].Age <= age_range[2]

\* C2: with the widgets at their defaults (all distinct positions, the age
\* range from the least to the greatest Age) the filtered view is every row
\* of the dataset, in order.
C2_DefaultKeepsAll ==
    (/\ FilterComputed
     /\ selected_positions = DefaultPositions(df)
     /\ age_range = DefaultAgeRange(df))
        => filtered_df = Index(Len(df.rows))

C2_Witness ==
    /\ FilterComputed
    /\ selected_positions = DefaultPositions(df)
    /\ age_range = DefaultAgeRange(df)
    /\ Cardinality(selected_positions) >= 2
    /\ age_range[1] < age_range[2]
    /\ Len(filtered_df) = Len(df.rows)
    /\ Len(df.rows) >= 3

\* C3 as claimed: the data file is read at most once in a process.
C3_ReadAtMostOnce == reads <= 1

\* C3, amended: once a read has succeeded (the cache holds the dataset), no
\* later call of load_data reads again and each returns the cached dataset,
\* which is the file's content and never changes; a read that fails stores
\* nothing.
C3_ReadOnceAfterSuccess ==
    /\ [](cache # <<>> => cache = <<Loaded>> /\ reads >= 1)
    /\ [](cache = <<>> /\ reads >= 1 => file.kind # "csv")
    /\ [][cache # <<>> =>
            /\ reads' = reads
            /\ cache' = cache
            /\ (pc = "load" => df' = cache[1] /\ pc' = "sidebar")]_vars

\* a later run's call of load_data, with the dataset already cached
C3_Witness == pc = "load" /\ cache # <<>> /\ reads = 1

\* C4 as claimed: when the file is missing, unparseable or lacks a required
\* column, no tab renders a chart or a table.
C4_LoadFailureRendersNothing ==
    (file.kind # "csv" \/ ~(Required \subseteq file.cols)) =>
        \A t \in Tabs : out[t] \cap (Charts \cup Tables) = {}

\* C5 as claimed: in a run over a complete file with zero positions
\* selected the view is empty, no tab raises, every tab that has rendered
\* shows a warning in place of its chart, and the run ends with all six
\* rendered.
C5_EmptySelectionHandled ==
    (/\ Required \subseteq df.cols
     /\ FilterComputed
     /\ selected_positions = {})
        => /\ filtered_df = <<>>
           /\ exc = "none"
           /\ \A t \in Tabs :
                 Entered(t) => "warning" \in out[t] /\ out[t] \cap Charts = {}
           /\ RunEnded => \A t \in Tabs : Entered(t)

\* C6: once Top Attackers has computed its table, the table has
\* min(N, rows of the view) rows of the view, no row twice, in descending
\* Attack order with equal Attack in dataset order, no row left out has a
\* greater Attack than a row in it, and a view of fewer than N rows is
\* returned whole.
C6_TopAttackers ==
    "table" \in out["tab4"] =>
        /\ top_n \in TopNMin..TopNMax
        /\ Len(top_attack) = Min(top_n, Len(filtered_df))
        /\ Range(top_attack) \subseteq RowsOfView
        /\ Cardinality(Range(top_attack)) = Len(top_attack)
        /\ \A j \in 1..(Len(top_attack) - 1) :
              \/ df.rows[top_attack[j]].Attack > df.rows[top_attack[j + 1]].Attack
              \/ /\ df.rows[top_attack[j]].Attack = df.rows[top_attack[j + 1]].Attack
                 /\ top_attack[j] < top_attack[j + 1]
        /\ \A i \in RowsOfView \ Range(top_attack) :
              \A k \in Range(top_attack) :
                  df.rows[i].Attack <= df.rows[k].Attack
        /\ (Len(filtered_df) < top_n => Range(top_attack) = RowsOfView)

\* N smaller than the view, equal Attack values in the table, and the
\* dataset's order not already the ranking
C6_Witness ==
    /\ "table" \in out["tab4"]
    /\ top_n < Len(filtered_df)
    /\ \E j \in 1..(Len(top_attack) - 1) :
          df.rows[top_attack[j]].Attack = df.rows[top_attack[j + 1]].Attack
    /\ \E j \in 1..(Len(top_attack) - 1) :
          df.rows[top_attack[j]].Attack > df.rows[top_attack[j + 1]].Attack
    /\ \E j \in 1..(Len(top_attack) - 1) : top_attack[j] > top_attack[j + 1]

\* C7: once Country Performance has computed its statistics, they hold one
\* row for each country of the view with at least minPlayers players and for
\* no other, each with that country's player count, in descending count
\* order; minPlayers = 1 keeps every country of the view, and minPlayers
\* above the largest count leaves nothing.
C7_CountryStats ==
    Entered("tab6") =>
        /\ min_players \in MinPlayersMin..MinPlayersMax
        /\ {country_stats[k].Country : k \in DOMAIN country_stats}
               = {c \in CountriesOfView : CountryCount(c) >= min_players}
        /\ Cardinality({country_stats[k].Country : k \in DOMAIN country_stats})
               = Len(country_stats)
        /\ \A k \in DOMAIN country_stats :
              country_stats[k].Player = CountryCount(country_stats[k].Country)
        /\ \A k \in 1..(Len(country_stats) - 1) :
              country_stats[k].Player >= country_stats[k + 1].Player
        /\ (min_players = 1 =>
               {country_stats[k].Country : k \in DOMAIN country_stats}
                   = CountriesOfView)
        /\ ((\A c \in CountriesOfView : CountryCount(c) < min_players)
               => country_stats = <<>>)

\* two countries kept with different counts, one at the threshold exactly,
\* and a third dropped
C7_Witness ==
    /\ Entered("tab6")
    /\ Len(country_stats) = 2
    /\ country_stats[1].Player > country_stats[2].Player
    /\ country_stats[2].Player = min_players
    /\ Cardinality(CountriesOfView) = 3

\* C8 as claimed: a tab with a parameter selection that has begun to render
\* shows exactly one of its chart and its warning: the chart iff the
\* selection suffices (at least one skill, at least two columns).
C8_ChartOrWarning ==
    Required \subseteq df.cols =>
        /\ Entered("tab2") =>
              /\ ("chart" \in out["tab2"]) # ("warning" \in out["tab2"])
              /\ ("chart" \in out["tab2"]) <=> (selected_skills # {})
        /\ Entered("tab5") =>
              /\ ("chart" \in out["tab5"]) # ("warning" \in out["tab5"])
              /\ ("chart" \in out["tab5"])
                    <=> (Cardinality(selected_corr_skills) >= CorrMinColumns)

\* C9 as claimed: a run over a complete file that has computed its filtered
\* view ends with Country Performance showing its warning and nothing else
\* when no country of the view can meet the threshold, and both charts and
\* the table without a warning when one does.
C9_CountryEmptyState ==
    (RunEnded /\ Required \subseteq df.cols /\ FilterComputed) =>
        /\ filtered_df = <<>> =>
              /\ "warning" \in out["tab6"]
              /\ out["tab6"] \cap (Charts \cup Tables) = {}
        /\ (Entered("tab6") /\ country_stats = <<>>) =>
              /\ "warning" \in out["tab6"]
              /\ out["tab6"] \cap (Charts \cup Tables) = {}
        /\ (Entered("tab6") /\ country_stats # <<>>) =>
              /\ {"chart_players", "chart_attack", "table"} \subseteq out["tab6"]
              /\ "warning" \notin out["tab6"]

\* C10: whatever the filters and the view parameters, the dataset a run
\* works on and the cached dataset are the file's content as loaded: the
\* same rows, in the same order, with the same values.
C10_DatasetUnchanged ==
    /\ cache # <<>> => cache = <<Loaded>>
    /\ df # NoTable => df = Loaded

\* a completed run that filtered rows out and computed every aggregation
C10_Witness ==
    /\ pc = "done"
    /\ filtered_df # <<>>
    /\ Len(filtered_df) < Len(df.rows)
    /\ top_attack # <<>>
    /\ country_stats # <<>>
====
